---- MODULE Spec2Model ----
(***************************************************************************)
(* Model of prometheus.py, the Prometheus exporter of awslimitchecker:     *)
(* the override parser, the metric path normaliser, the gauge registry,    *)
(* the usage translator and the polling loop.                              *)
(*                                                                         *)
(* A Python str is a sequence of one-character strings, so that lower(),   *)
(* translate(), split() and sorted() are computed character by character.  *)
(***************************************************************************)
EXTENDS Integers, Sequences, FiniteSets, TLC

VARIABLES
    pc,         \* position of main(): "config", "checkers", "serve", "update", "translate", "sleep", "crashed"
    config,     \* the configuration texts _read_config returns: [regions, overrides]
    regions,    \* main's `regions` list
    overrides,  \* main's `overrides` set of _Limit_Override objects
    order,      \* keys of main's `checkers` dict, in insertion order
    checkers,   \* main's `checkers` dict: region -> checker state
    idx,        \* index in `order` of the region main is at
    report,     \* what checker.get_limits() returns inside the running update()
    gauges,     \* module global `gauges`: path -> Gauge
    samples,    \* the values the gauges hold: path -> (label values -> number)
    log,        \* the labels(...).set(...) calls of the current or last update(), in order
    outcome,    \* how the last update() ended
    cycle,        \* number of the pass of `while True` main is in, 0 before the first
    observations, \* number of observations REQUEST_TIME has recorded
    elapsed,      \* seconds spent in update() by the pass of the last update() that returned
    waited,       \* seconds main slept before the current pass
    inp,        \* argument of the function under study
    out         \* its result

timing == <<cycle, observations, elapsed, waited>>

vars == <<pc, config, regions, overrides, order, checkers, idx, report,
          gauges, samples, log, outcome, cycle, observations, elapsed, waited,
          inp, out>>

----------------------------------------------------------------------------
(* Python str primitives *)

\* ASCII from chr(32) to chr(95), in code point order
CharsLow ==
    <<" ", "!", "\"", "#", "$", "%", "&", "'", "(", ")", "*", "+", ",", "-", ".", "/", "0", "1", "2", "3", "4", "5", "6", "7", "8", "9", ":", ";", "<", "=", ">", "?", "@", "A", "B", "C", "D", "E", "F", "G", "H", "I", "J", "K", "L", "M", "N", "O", "P", "Q", "R", "S", "T", "U", "V", "W", "X", "Y", "Z", "[", "\\", "]", "^", "_">>

\* ASCII from chr(97) to chr(126), in code point order
CharsHigh ==
    <<"a", "b", "c", "d", "e", "f", "g", "h", "i", "j", "k", "l", "m", "n", "o", "p", "q", "r", "s", "t", "u", "v", "w", "x", "y", "z", "{", "|", "}", "~">>

CharSet ==
    {CharsLow[i] : i \in 1..Len(CharsLow)} \cup {CharsHigh[i] : i \in 1..Len(CharsHigh)}
    \cup {"\n", "\t"}

\* ord(c)
OrdTable ==
    [c \in CharSet |->
        IF c = "\n" THEN 10
        ELSE IF c = "\t" THEN 9
        ELSE IF \E i \in 1..Len(CharsLow) : CharsLow[i] = c
             THEN 31 + (CHOOSE i \in 1..Len(CharsLow) : CharsLow[i] = c)
             ELSE 96 + (CHOOSE i \in 1..Len(CharsHigh) : CharsHigh[i] = c)]

Ord(c) ==
    OrdTable[c]

\* str.lower() of one character: 'A'..'Z' become 'a'..'z'
LowerTable ==
    [c \in CharSet |->
        IF OrdTable[c] >= 65 /\ OrdTable[c] <= 90
        THEN CharsHigh[OrdTable[c] + 32 - 96]
        ELSE c]

LowerChar(c) ==
    LowerTable[c]

lower(s) ==
    [i \in 1..Len(s) |-> LowerChar(s[i])]

\* str.maketrans(' -.', '___', '()'): <<>> stands for the None of a deleted character
maketrans(from, to, delete) ==
    [c \in {from[i] : i \in 1..Len(from)} \cup {delete[i] : i \in 1..Len(delete)} |->
        IF \E i \in 1..Len(delete) : delete[i] = c
        THEN <<>>
        ELSE <<to[CHOOSE i \in 1..Len(from) : from[i] = c]>>]

trantab_keep_parens ==
    maketrans(<<" ", "-", ".", "(", ")">>, <<"_", "_", "_", "_", "_">>, <<>>)

trantab_typo ==
    maketrans(<<" ", "-", ".">>, <<"-", "_", "_">>, <<"(", ")">>)

trantab ==
    maketrans(<<" ", "-", ".">>, <<"_", "_", "_">>, <<"(", ")">>)

RECURSIVE translate(_, _)
translate(s, tab) ==
    IF s = <<>> THEN <<>>
    ELSE (IF Head(s) \in DOMAIN tab THEN tab[Head(s)] ELSE <<Head(s)>>)
         \o translate(Tail(s), tab)

\* str.split(sep) for a one-character separator: the texts between
\* consecutive separators, always at least one part
split(s, sep) ==
    LET at == {i \in 1..Len(s) : s[i] = sep}
        cut(k) == IF k = 0 THEN 0
                  ELSE IF k > Cardinality(at) THEN Len(s) + 1
                  ELSE CHOOSE i \in at : Cardinality({j \in at : j < i}) = k - 1
    IN  [k \in 1..(Cardinality(at) + 1) |-> SubSeq(s, cut(k - 1) + 1, cut(k) - 1)]

RECURSIVE join(_, _)
join(parts, sep) ==
    IF parts = <<>> THEN <<>>
    ELSE IF Len(parts) = 1 THEN parts[1]
    ELSE parts[1] \o sep \o join(Tail(parts), sep)

\* `sub in s`
StrIn(sub, s) ==
    \E i \in 1..(Len(s) - Len(sub) + 1) : SubSeq(s, i, i + Len(sub) - 1) = sub

\* `c in s` for one character
CharIn(c, s) ==
    \E i \in 1..Len(s) : s[i] = c

\* a < b for str: by code point, a proper prefix first
RECURSIVE StrLess(_, _)
StrLess(a, b) ==
    IF b = <<>> THEN FALSE
    ELSE IF a = <<>> THEN TRUE
    ELSE IF Head(a) = Head(b) THEN StrLess(Tail(a), Tail(b))
    ELSE Ord(Head(a)) < Ord(Head(b))

RECURSIVE sorted_descending(_)
sorted_descending(keys) ==
    IF keys = {} THEN <<>>
    ELSE LET m == CHOOSE k \in keys : \A o \in keys \ {k} : StrLess(o, k)
         IN  <<m>> \o sorted_descending(keys \ {m})

\* sorted(d.items()) of a dict with str keys: the keys in ascending order
RECURSIVE sorted(_)
sorted(keys) ==
    IF keys = {} THEN <<>>
    ELSE LET m == CHOOSE k \in keys : \A o \in keys \ {k} : StrLess(k, o)
         IN  <<m>> \o sorted(keys \ {m})

----------------------------------------------------------------------------
(* Path normalisation: the first statement of gauge() *)

normalize(path) ==
    translate(lower(path), trantab)

\* the specification's reference: one left-to-right pass, one character at a time
RECURSIVE OnePass(_)
OnePass(s) ==
    IF s = <<>> THEN <<>>
    ELSE LET c == Head(s)
         IN  (IF c \in {"(", ")"} THEN <<>>
              ELSE IF c \in {" ", "-", "."} THEN <<"_">>
              ELSE <<LowerChar(c)>>)
             \o OnePass(Tail(s))

\* update(): path = '.'.join([service, limit_name])
limit_path(service, limit_name) ==
    join(<<service, limit_name>>, <<".">>)

----------------------------------------------------------------------------
(* The gauge registry *)

\* Gauge(path, '', labels). Two Gauge objects are told apart by `serial`, the
\* rank of their construction among the entries of the registry.
Gauge(name, labelnames, serial) ==
    [name |-> name, labelnames |-> labelnames, serial |-> serial]

gauge_always_create(path, extra_labels, reg) ==
    LET p == normalize(path)
        labels == <<"region", "type">> \o extra_labels
        g == Gauge(p, labels, Cardinality(DOMAIN reg) + 1)
    IN  [g |-> g, gauges |-> (p :> g) @@ reg]

\* gauge(path, extra_labels) on the registry reg: the Gauge returned and the
\* registry afterwards. extra_labels None and [] are both <<>>.
gauge(path, extra_labels, reg) ==
    LET p == normalize(path)
    IN  IF p \in DOMAIN reg
        THEN [g |-> reg[p], gauges |-> reg]
        ELSE LET labels == <<"region", "type">> \o extra_labels
                 g == Gauge(p, labels, Cardinality(DOMAIN reg) + 1)
             IN  [g |-> g, gauges |-> (p :> g) @@ reg]

----------------------------------------------------------------------------
(* Configuration: int(), _Limit_Override and _get_configs *)

Whitespace == {" ", "\t", "\n"}

RECURSIVE lstrip(_)
lstrip(s) ==
    IF s # <<>> /\ Head(s) \in Whitespace THEN lstrip(Tail(s)) ELSE s

RECURSIVE rstrip(_)
rstrip(s) ==
    IF s # <<>> /\ s[Len(s)] \in Whitespace THEN rstrip(SubSeq(s, 1, Len(s) - 1)) ELSE s

IsDigit(c) ==
    Ord(c) >= 48 /\ Ord(c) <= 57

\* the digit part of a decimal literal: digits, single underscores between them
IsDigitString(s) ==
    /\ s # <<>>
    /\ \A i \in 1..Len(s) : IsDigit(s[i]) \/ s[i] = "_"
    /\ IsDigit(s[1]) /\ IsDigit(s[Len(s)])
    /\ \A i \in 1..(Len(s) - 1) : ~(s[i] = "_" /\ s[i + 1] = "_")

RECURSIVE DigitsValue(_, _)
DigitsValue(s, acc) ==
    IF s = <<>> THEN acc
    ELSE IF Head(s) = "_" THEN DigitsValue(Tail(s), acc)
    ELSE DigitsValue(Tail(s), 10 * acc + (Ord(Head(s)) - 48))

\* int(s) for a str: surrounding whitespace, one optional sign, decimal digits;
\* anything else raises ValueError
int(s) ==
    LET t == rstrip(lstrip(s))
        signed == t # <<>> /\ Head(t) \in {"+", "-"}
        digits == IF signed THEN Tail(t) ELSE t
    IN  IF IsDigitString(digits)
        THEN [raised |-> "none",
              value |-> IF signed /\ Head(t) = "-"
                        THEN 0 - DigitsValue(digits, 0)
                        ELSE DigitsValue(digits, 0)]
        ELSE [raised |-> "ValueError", value |-> 0]

\* _Limit_Override(item). The class defines neither __eq__ nor __hash__, so an
\* object is equal to itself only: `id` is the identity of the object built.
_Limit_Override(item, id) ==
    LET by_slash == split(item, "/")
        by_equals == split(item, "=")
        name_parts == split(by_equals[1], "/")
        none == [raised |-> "none", id |-> id, region |-> <<>>, service |-> <<>>,
                 limit_name |-> <<>>, value |-> 0]
    IN  IF Len(by_slash) < 2 THEN [none EXCEPT !.raised = "IndexError"]
        ELSE IF Len(name_parts) < 3 THEN [none EXCEPT !.raised = "IndexError"]
        ELSE IF Len(by_equals) < 2 THEN [none EXCEPT !.raised = "IndexError"]
        ELSE IF int(by_equals[2]).raised # "none"
             THEN [none EXCEPT !.raised = int(by_equals[2]).raised]
        ELSE [raised |-> "none", id |-> id,
              region |-> by_slash[1],
              service |-> by_slash[2],
              limit_name |-> name_parts[3],
              value |-> int(by_equals[2]).value]

\* the first exception a left-to-right evaluation of the results raises
RECURSIVE FirstRaised(_)
FirstRaised(results) ==
    IF results = <<>> THEN "none"
    ELSE IF Head(results).raised # "none" THEN Head(results).raised
    ELSE FirstRaised(Tail(results))

\* _get_configs() on the texts cfg that _read_config returns
_get_configs(cfg) ==
    LET port == int(cfg.port)
        interval == int(cfg.interval)
        items == split(cfg.overrides, "\n")
        built == [i \in 1..Len(items) |->
                     IF CharIn("=", items[i])
                     THEN _Limit_Override(items[i], i)
                     ELSE [raised |-> "none"]]
        raised == FirstRaised(<<port, interval>> \o built)
    IN  IF raised # "none"
        THEN [raised |-> raised, port |-> 0, interval |-> 0, regions |-> <<>>,
              overrides |-> {}]
        ELSE [raised |-> "none",
              port |-> port.value,
              interval |-> interval.value,
              regions |-> split(cfg.regions, ","),
              overrides |-> {built[i] : i \in {j \in 1..Len(items) : CharIn("=", items[j])}}]

----------------------------------------------------------------------------
(* The usage translator: update_service, update_ec2_on_demand, update *)

\* The translator's state while update() runs: the registry, the values of
\* the gauges, the labels(...).set(...) calls made so far, and the exception
\* that ended the run ("none" while it is running).
TYPE_LIMIT == <<"l", "i", "m", "i", "t">>
TYPE_CURRENT == <<"c", "u", "r", "r", "e", "n", "t">>
TOTAL == <<"t", "o", "t", "a", "l">>
EC2_PREFIX == <<"e", "c", "2">>
ON_DEMAND == <<"o", "n", "-", "d", "e", "m", "a", "n", "d">>
AGGREGATE_PATH ==
    <<"e", "c", "2", "_", "r", "u", "n", "n", "i", "n", "g", "_", "o", "n", "_", "d", "e", "m", "a", "n", "d", "_", "e", "c", "2", "_", "i", "n", "s", "t", "a", "n", "c", "e", "s">>

\* g.labels(**labels).set(value), called from `caller` for the limit limit_name
labels_set(st, g, labels, value, caller, limit_name) ==
    LET series == IF g.name \in DOMAIN st.samples THEN st.samples[g.name] ELSE <<>>
    IN  [st EXCEPT
            !.samples = (g.name :> ((labels :> value) @@ series)) @@ st.samples,
            !.log = Append(st.log, [caller |-> caller, service |-> <<>>,
                                    limit_name |-> limit_name, path |-> g.name,
                                    labels |-> labels, value |-> value])]

\* update_service: metric_type of one usage entry; resource_id None or '' is <<>>
metric_type_always_current(resource) ==
    TYPE_CURRENT

metric_type(resource) ==
    IF resource.resource_id # <<>> THEN resource.resource_id ELSE TYPE_CURRENT

\* update_service: for resource in usage
RECURSIVE update_service_usage(_, _, _, _, _)
update_service_usage(st, g, region, usage, limit_name) ==
    IF usage = <<>> THEN st
    ELSE update_service_usage(
             labels_set(st, g, [region |-> region, type |-> metric_type(Head(usage))],
                        Head(usage).value, "update_service", limit_name),
             g, region, Tail(usage), limit_name)

update_service_one_region(st, path, usage, limit, region, limit_name) ==
    LET r == gauge(path, <<>>, st.gauges)
        st1 == [st EXCEPT !.gauges = r.gauges]
        st2 == labels_set(st1, r.g, [region |-> <<"u", "s", "-", "e", "a", "s", "t", "-", "1">>, type |-> TYPE_LIMIT],
                          limit, "update_service", limit_name)
    IN  update_service_usage(st2, r.g, region, usage, limit_name)

\* update_service(path, usage, limit, region); limit_name only labels the log
update_service(st, path, usage, limit, region, limit_name) ==
    LET r == gauge(path, <<>>, st.gauges)
        st1 == [st EXCEPT !.gauges = r.gauges]
        st2 == labels_set(st1, r.g, [region |-> region, type |-> TYPE_LIMIT], limit,
                          "update_service", limit_name)
    IN  update_service_usage(st2, r.g, region, usage, limit_name)

\* next(word for word in limit_name.split(' ') if '.' in word): the word, or
\* <<>> when the generator is exhausted and next() raises StopIteration
RECURSIVE first_dotted_word(_)
first_dotted_word(words) ==
    IF words = <<>> THEN <<>>
    ELSE IF CharIn(".", Head(words)) THEN Head(words)
    ELSE first_dotted_word(Tail(words))

instance_type_without_total(limit_name) ==
    first_dotted_word(split(limit_name, " "))

\* update_ec2_on_demand: the instance_type of one limit, <<>> for StopIteration
instance_type(limit_name) ==
    IF normalize(join(<<EC2_PREFIX, limit_name>>, <<".">>)) = AGGREGATE_PATH
    THEN TOTAL
    ELSE first_dotted_word(split(limit_name, " "))

\* update_ec2_on_demand: for resource in limit.get_current_usage()
RECURSIVE update_ec2_usage(_, _, _, _, _, _)
update_ec2_usage(st, g, region, it, usage, limit_name) ==
    IF usage = <<>> THEN st
    ELSE update_ec2_usage(
             labels_set(st, g, [region |-> region, type |-> TYPE_CURRENT,
                                instance_type |-> it],
                        Head(usage).value, "update_ec2_on_demand", limit_name),
             g, region, it, Tail(usage), limit_name)

\* update_ec2_on_demand: for limit_name, limit in sorted(limits.items())
RECURSIVE update_ec2_limits(_, _, _, _, _)
update_ec2_limits(st, g, region, limits, names) ==
    IF names = <<>> \/ st.raised # "none" THEN st
    ELSE LET limit_name == Head(names)
             limit == limits[limit_name]
             it == instance_type(limit_name)
         IN  IF it = <<>>
             THEN [st EXCEPT !.raised = "StopIteration"]
             ELSE update_ec2_limits(
                      update_ec2_usage(
                          labels_set(st, g, [region |-> region, type |-> TYPE_LIMIT,
                                             instance_type |-> it],
                                     limit.limit, "update_ec2_on_demand", limit_name),
                          g, region, it, limit.usage, limit_name),
                      g, region, limits, Tail(names))

\* update_ec2_on_demand(region, limits)
update_ec2_on_demand(st, region, limits) ==
    IF DOMAIN limits = {} THEN st
    ELSE LET r == gauge(AGGREGATE_PATH, <<"instance_type">>, st.gauges)
         IN  update_ec2_limits([st EXCEPT !.gauges = r.gauges], r.g, region, limits,
                               sorted(DOMAIN limits))

\* update: for limit_name, limit in sorted(other_limits.items())
RECURSIVE update_other_limits(_, _, _, _, _)
update_other_limits(st, service, region, other_limits, names) ==
    IF names = <<>> \/ st.raised # "none" THEN st
    ELSE LET limit_name == Head(names)
             limit == other_limits[limit_name]
         IN  update_other_limits(
                 update_service(st, limit_path(service, limit_name), limit.usage,
                                limit.limit, region, limit_name),
                 service, region, other_limits, Tail(names))

\* the calls logged after `before` were made for `service`
TagService(before, after, service) ==
    [after EXCEPT !.log = [i \in 1..Len(after.log) |->
                              IF i > Len(before.log)
                              THEN [after.log[i] EXCEPT !.service = service]
                              ELSE after.log[i]]]

is_on_demand_case_sensitive(key) ==
    StrIn(ON_DEMAND, key)

\* update: key.lower() contains 'on-demand'
is_on_demand(key) ==
    StrIn(ON_DEMAND, lower(key))

\* update: the body of `for service, svc_limits in sorted(...)` for one service
update_one_service(st, region, service, svc_limits) ==
    LET ec2_keys == {key \in DOMAIN svc_limits : is_on_demand(key)}
        other_keys == {key \in DOMAIN svc_limits : key \notin ec2_keys}
        ec2_instances_limits == [key \in ec2_keys |-> svc_limits[key]]
        other_limits == [key \in other_keys |-> svc_limits[key]]
        st1 == update_ec2_on_demand(st, region, ec2_instances_limits)
    IN  TagService(st,
                   update_other_limits(st1, service, region, other_limits,
                                       sorted(other_keys)),
                   service)

\* update: for service, svc_limits in sorted(checker.get_limits().items())
RECURSIVE update_services(_, _, _, _)
update_services(st, region, limits, services) ==
    IF services = <<>> \/ st.raised # "none" THEN st
    ELSE update_services(
             update_one_service(st, region, Head(services), limits[Head(services)]),
             region, limits, Tail(services))

update_try_atomic(region, limits, reg, values) ==
    LET st == update_services([gauges |-> reg, samples |-> values, log |-> <<>>,
                               raised |-> "none"],
                              region, limits, sorted(DOMAIN limits))
    IN  IF st.raised # "none" THEN [st EXCEPT !.gauges = reg, !.samples = values]
        ELSE st

\* the try block of update() after find_usage() returned, for the report limits
update_try(region, limits, reg, values) ==
    update_services([gauges |-> reg, samples |-> values, log |-> <<>>, raised |-> "none"],
                    region, limits, sorted(DOMAIN limits))

\* update: `except Exception` catches every exception the try block can raise
except_only_ValueError(exc) ==
    exc = "ValueError"

except_Exception(exc) ==
    exc \in {"Exception", "StopIteration", "ValueError", "IndexError"}

----------------------------------------------------------------------------
(* Values every specification starts from *)

NoDict == <<>>

InitProgram ==
    /\ pc = "config"
    /\ regions = <<>>
    /\ overrides = {}
    /\ order = <<>>
    /\ checkers = NoDict
    /\ idx = 0
    /\ report = NoDict
    /\ gauges = NoDict
    /\ samples = NoDict
    /\ log = <<>>
    /\ outcome = [call |-> "none", region |-> <<>>, raised |-> "none",
                  translated |-> FALSE]
    /\ cycle = 0
    /\ observations = 0
    /\ elapsed = 0
    /\ waited = 0

----------------------------------------------------------------------------
(* The backend: what checker.get_limits() can return after find_usage() *)

\* an AwsLimit: get_limit() and get_current_usage()
Limit(limit, usage) ==
    [limit |-> limit, usage |-> usage]

\* an AwsLimitUsage: get_value() and resource_id (<<>> when it has none)
Usage(value, resource_id) ==
    [value |-> value, resource_id |-> resource_id]

SVC_EBS == <<"E", "B", "S">>
SVC_EC2 == <<"E", "C", "2">>
SVC_RDS == <<"R", "D", "S">>
SVC_VPC == <<"V", "P", "C">>
NAME_SNAPSHOTS == <<"A", "c", "t", "i", "v", "e", " ", "s", "n", "a", "p", "s", "h", "o", "t", "s">>
NAME_TOTAL == <<"R", "u", "n", "n", "i", "n", "g", " ", "O", "n", "-", "D", "e", "m", "a", "n", "d", " ", "E", "C", "2", " ", "i", "n", "s", "t", "a", "n", "c", "e", "s">>
NAME_M5 == <<"R", "u", "n", "n", "i", "n", "g", " ", "O", "n", "-", "D", "e", "m", "a", "n", "d", " ", "m", "5", ".", "l", "a", "r", "g", "e", " ", "i", "n", "s", "t", "a", "n", "c", "e", "s">>
NAME_HIGH_MEM == <<"R", "u", "n", "n", "i", "n", "g", " ", "O", "n", "-", "D", "e", "m", "a", "n", "d", " ", "H", "i", "g", "h", " ", "M", "e", "m", "o", "r", "y", " ", "i", "n", "s", "t", "a", "n", "c", "e", "s">>
NAME_EIPS == <<"V", "P", "C", " ", "E", "l", "a", "s", "t", "i", "c", " ", "I", "P", " ", "a", "d", "d", "r", "e", "s", "s", "e", "s", " ", "(", "E", "I", "P", "s", ")">>
NAME_RDS_ON_DEMAND == <<"O", "n", "-", "D", "e", "m", "a", "n", "d", " ", "d", "b", ".", "m", "5", ".", "l", "a", "r", "g", "e", " ", "i", "n", "s", "t", "a", "n", "c", "e", "s">>
NAME_VPCS == <<"V", "P", "C", "s">>
VPC_A == <<"v", "p", "c", "-", "a">>
VPC_B == <<"v", "p", "c", "-", "b">>

\* every limit translates
ReportPlain ==
    (SVC_EC2 :> ((NAME_TOTAL :> Limit(20, <<Usage(5, <<>>)>>))
                 @@ (NAME_M5 :> Limit(10, <<Usage(2, <<>>), Usage(3, <<>>)>>))
                 @@ (NAME_EIPS :> Limit(5, <<>>))))
    @@ (SVC_VPC :> (NAME_VPCS :> Limit(5, <<Usage(1, VPC_A), Usage(2, VPC_B)>>)))

\* an on-demand limit of EC2 without an instance type, after the total
ReportNoType ==
    (SVC_EBS :> (NAME_SNAPSHOTS :> Limit(9, <<Usage(4, <<>>)>>)))
    @@ (SVC_EC2 :> ((NAME_TOTAL :> Limit(22, <<Usage(7, <<>>)>>))
                    @@ (NAME_HIGH_MEM :> Limit(3, <<Usage(1, <<>>)>>))
                    @@ (NAME_EIPS :> Limit(8, <<Usage(3, <<>>)>>))))
    @@ (SVC_VPC :> (NAME_VPCS :> Limit(7, <<Usage(5, VPC_B)>>)))

\* a service other than EC2 with an on-demand limit; a resource reported twice
ReportRds ==
    (SVC_RDS :> (NAME_RDS_ON_DEMAND :> Limit(4, <<Usage(1, <<>>)>>)))
    @@ (SVC_VPC :> (NAME_VPCS :> Limit(6, <<Usage(3, VPC_A), Usage(4, VPC_A)>>)))

Reports ==
    {ReportPlain, ReportNoType, ReportRds}

----------------------------------------------------------------------------
(* main(): start-up and the polling loop *)

DEFAULT_PORT == <<"8", "0", "8", "0">>
DEFAULT_INTERVAL == <<"1", "8", "0", "0">>
DEFAULT_REGIONS == <<"u", "s", "-", "e", "a", "s", "t", "-", "1", ",", "u", "s", "-", "w", "e", "s", "t", "-", "2">>

\* all orders in which iterating the set S can yield its elements
Orderings(S) ==
    {q \in [1..Cardinality(S) -> S] : \A i, j \in 1..Cardinality(S) : q[i] = q[j] => i = j}

\* main: the condition of `override for override in overrides if ...`
override_any_region(override, region) ==
    TRUE

override_matches(override, region) ==
    override.region = region

\* AwsLimitChecker(region=region) followed by the set_limit_override calls of
\* main, made in the order `calls`
new_checker(region, calls) ==
    [region |-> region,
     set_limit_override |-> [i \in 1..Len(calls) |->
                                <<calls[i].service, calls[i].limit_name, calls[i].value>>],
     find_usage |-> 0]

\* main(): port, interval, regions, overrides = _get_configs(); an exception
\* of _get_configs ends the process
GetConfigs ==
    /\ pc = "config"
    /\ LET r == _get_configs(config)
       IN  IF r.raised # "none"
           THEN /\ pc' = "crashed"
                /\ outcome' = [call |-> "_get_configs", region |-> <<>>, raised |-> r.raised,
                                translated |-> FALSE]
                /\ UNCHANGED <<regions, overrides, idx>>
           ELSE /\ pc' = "checkers"
                /\ regions' = r.regions
                /\ overrides' = r.overrides
                /\ idx' = 1
                /\ outcome' = [call |-> "_get_configs", region |-> <<>>, raised |-> "none",
                                translated |-> FALSE]
    /\ UNCHANGED <<config, order, checkers, report, gauges, samples, log, inp, out, timing>>

\* main(): one pass of `for region in regions`
MakeChecker ==
    /\ pc = "checkers"
    /\ idx <= Len(regions)
    /\ \E calls \in Orderings({o \in overrides : override_matches(o, regions[idx])}) :
          checkers' = (regions[idx] :> new_checker(regions[idx], calls)) @@ checkers
    /\ order' = IF regions[idx] \in DOMAIN checkers THEN order
                ELSE Append(order, regions[idx])
    /\ idx' = idx + 1
    /\ UNCHANGED <<pc, config, regions, overrides, report, gauges, samples, log,
                   outcome, inp, out, timing>>

\* main(): start_http_server(port), then the first pass of `while True`
StartServer ==
    /\ pc = "checkers"
    /\ idx > Len(regions)
    /\ pc' = "update"
    /\ idx' = 1
    /\ cycle' = 1
    /\ UNCHANGED <<config, regions, overrides, order, checkers, report, gauges,
                   samples, log, outcome, inp, out, observations, elapsed, waited>>

\* the seconds one call of update() can take
Durations == {600, 1200}

\* @REQUEST_TIME.time(): the Summary's count after one more call of update()
\* that ended with `raised` ("none" for a normal return); the timer observes
\* when the call is left, however it is left
REQUEST_TIME_only_on_success(count, raised) ==
    IF raised = "none" THEN count + 1 ELSE count

REQUEST_TIME_time(count, raised) ==
    count + 1

\* update() is left after some seconds, with `raised`
Timed(raised) ==
    /\ observations' = REQUEST_TIME_time(observations, raised)
    /\ \E seconds \in Durations :
          elapsed' = (IF idx = 1 THEN 0 ELSE elapsed) + seconds
    /\ UNCHANGED <<cycle, waited>>

AfterUpdate_sleeps_each_time ==
    pc' = "sleep" /\ idx' = idx

\* main(): where the loop is after update() returned for the region at idx
AfterUpdate ==
    IF idx < Len(order)
    THEN pc' = "update" /\ idx' = idx + 1
    ELSE pc' = "sleep" /\ idx' = idx

\* an exception `raised` in the try block of update(), before or after
\* find_usage() returned: caught and logged, or propagated to main(), which
\* has no handler
Raise(region, raised, translated) ==
    /\ outcome' = [call |-> "update", region |-> region, raised |-> raised,
                   translated |-> translated]
    /\ IF except_Exception(raised)
       THEN AfterUpdate
       ELSE pc' = "crashed" /\ idx' = idx

\* update(checker, region): checker.find_usage() raises; the clock apart
FindUsageRaisesUntimed ==
    /\ pc = "update"
    /\ checkers' = [checkers EXCEPT ![order[idx]].find_usage = 1]
    /\ Raise(order[idx], "Exception", FALSE)
    /\ log' = <<>>
    /\ UNCHANGED <<config, regions, overrides, order, report, gauges, samples, inp, out>>

FindUsageRaises_translates_stale ==
    /\ pc = "update"
    /\ checkers' = [checkers EXCEPT ![order[idx]].find_usage = 1]
    /\ Raise(order[idx], "Exception", FALSE)
    /\ Timed("Exception")
    /\ LET st == update_try(order[idx], report, gauges, samples)
       IN  gauges' = st.gauges /\ samples' = st.samples /\ log' = st.log
    /\ UNCHANGED <<config, regions, overrides, order, report, inp, out>>

\* update(checker, region): checker.find_usage() raises
FindUsageRaises ==
    /\ FindUsageRaisesUntimed
    /\ Timed("Exception")

\* update(checker, region): checker.find_usage() returns; get_limits() will
\* return the report `limits`
FindUsageReturns(limits) ==
    /\ pc = "update"
    /\ checkers' = [checkers EXCEPT ![order[idx]].find_usage = 1]
    /\ report' = limits
    /\ pc' = "translate"
    /\ log' = <<>>
    /\ UNCHANGED <<config, regions, overrides, order, idx, gauges, samples, outcome,
                   inp, out, timing>>

\* update(checker, region): checker.find_usage() returns; get_limits() will
\* return one of the reports of the backend
FindUsage ==
    \E limits \in Reports : FindUsageReturns(limits)

\* update(checker, region): the rest of the try block, to its end or to the
\* first exception; the clock apart
TranslateUntimed ==
    /\ pc = "translate"
    /\ LET st == update_try(order[idx], report, gauges, samples)
       IN  /\ gauges' = st.gauges
           /\ samples' = st.samples
           /\ log' = st.log
           /\ IF st.raised = "none"
              THEN /\ outcome' = [call |-> "update", region |-> order[idx],
                                  raised |-> "none", translated |-> TRUE]
                   /\ AfterUpdate
              ELSE Raise(order[idx], st.raised, TRUE)
    /\ UNCHANGED <<config, regions, overrides, order, checkers, report, inp, out>>

\* update(checker, region): the rest of the try block, to its end or to the
\* first exception
Translate ==
    /\ TranslateUntimed
    /\ Timed(outcome'.raised)

\* main's `interval`, as _get_configs returned it
main_interval ==
    _get_configs(config).interval

time_sleep_remaining(seconds, spent) ==
    IF seconds < 0 THEN [raised |-> "ValueError", waited |-> 0]
    ELSE [raised |-> "none",
          waited |-> IF spent >= seconds THEN 0 ELSE seconds - spent]

\* time.sleep(seconds) after a pass that spent `spent` seconds in update():
\* ValueError for a negative length, else the seconds the loop waits before
\* the next pass
time_sleep(seconds, spent) ==
    IF seconds < 0 THEN [raised |-> "ValueError", waited |-> 0]
    ELSE [raised |-> "none", waited |-> seconds]

\* passes of `while True` a behaviour goes through
MaxCycles == 2

\* main(): time.sleep(interval) returns and the next pass of `while True`
\* starts, or it raises and the exception leaves main(); the clock apart
SleepUntimed ==
    /\ pc = "sleep"
    /\ IF time_sleep(main_interval, elapsed).raised = "none"
       THEN /\ pc' = "update"
            /\ idx' = 1
            /\ outcome' = outcome
       ELSE /\ pc' = "crashed"
            /\ idx' = idx
            /\ outcome' = [call |-> "time.sleep", region |-> <<>>,
                            raised |-> time_sleep(main_interval, elapsed).raised,
                            translated |-> FALSE]
    /\ UNCHANGED <<config, regions, overrides, order, checkers, report, gauges,
                   samples, log, inp, out>>

\* main(): time.sleep(interval), then the next pass of `while True`
Sleep ==
    /\ SleepUntimed
    /\ cycle < MaxCycles
    /\ IF time_sleep(main_interval, elapsed).raised = "none"
       THEN /\ cycle' = cycle + 1
            /\ waited' = time_sleep(main_interval, elapsed).waited
       ELSE UNCHANGED <<cycle, waited>>
    /\ UNCHANGED <<observations, elapsed>>

Config(port, interval, region_list, override_list) ==
    [port |-> port, interval |-> interval, regions |-> region_list,
     overrides |-> override_list]

MainConfigs ==
    {Config(DEFAULT_PORT, DEFAULT_INTERVAL, DEFAULT_REGIONS,
            <<"u", "s", "-", "e", "a", "s", "t", "-", "1", "/", "e", "c", "2", "/", "O", "n", "-", "D", "e", "m", "a", "n", "d", " ", "m", "5", ".", "l", "a", "r", "g", "e", "=", "5", "0", "\n", "u", "s", "-", "w", "e", "s", "t", "-", "2", "/", "V", "P", "C", "/", "V", "P", "C", "s", "=", "7", "\n", "\n", "e", "u", "-", "w", "e", "s", "t", "-", "1", "/", "V", "P", "C", "/", "V", "P", "C", "s", "=", "7">>),
     Config(DEFAULT_PORT, DEFAULT_INTERVAL, <<"u", "s", "-", "w", "e", "s", "t", "-", "2">>,
            <<"u", "s", "-", "w", "e", "s", "t", "-", "2", "/", "V", "P", "C", "/", "V", "P", "C", "s", "=", "7", "\n", "u", "s", "-", "w", "e", "s", "t", "-", "2", "/", "V", "P", "C", "/", "V", "P", "C", "s", "=", "9">>),
     Config(DEFAULT_PORT, DEFAULT_INTERVAL, DEFAULT_REGIONS, <<"b", "a", "d", "/", "f", "o", "r", "m", "a", "t", "=", "n", "o", "t", "a", "n", "u", "m", "b", "e", "r">>),
     Config(DEFAULT_PORT, <<"3", "0", "m">>, DEFAULT_REGIONS, <<>>),
     Config(DEFAULT_PORT, <<"-", "1">>, <<"u", "s", "-", "w", "e", "s", "t", "-", "2">>, <<>>)}

Init ==
    /\ InitProgram
    /\ config \in MainConfigs
    /\ inp = <<>>
    /\ out = <<>>

Next ==
    \/ GetConfigs
    \/ MakeChecker
    \/ StartServer
    \/ FindUsageRaises
    \/ FindUsage
    \/ Translate
    \/ Sleep

Spec == Init /\ [][Next]_vars

REGION_EAST == <<"u", "s", "-", "e", "a", "s", "t", "-", "1">>
REGION_WEST == <<"u", "s", "-", "w", "e", "s", "t", "-", "2">>
REGION_EU == <<"e", "u", "-", "w", "e", "s", "t", "-", "1">>

\* update() has ended, in this step, on an exception
UpdateRaised ==
    /\ pc \in {"update", "translate"}
    /\ pc' # "translate"
    /\ outcome'.raised # "none"

\* C1: when find_usage() or a step of the translation raises inside
\* update(checker, r), update returns to the loop, which goes on with the
\* region after r, or sleeps when r is the last one; from each position of
\* the loop the next step is the update of the region at that position, and
\* after the sleep the loop starts again at the first region. Whether
\* time.sleep returns depends on the configured interval alone (a negative
\* one makes it raise), not on what the updates of the pass raised.
C1_FailureIsolated ==
    /\ [][UpdateRaised =>
             IF idx < Len(order)
             THEN pc' = "update" /\ idx' = idx + 1
             ELSE pc' = "sleep" /\ idx' = idx]_vars
    /\ [][pc = "update" =>
             /\ checkers'[order[idx]].find_usage = 1
             /\ pc' = "translate" \/ outcome'.region = order[idx]]_vars
    /\ [][pc = "sleep" =>
             IF main_interval >= 0 THEN pc' = "update" /\ idx' = 1
                                   ELSE pc' = "crashed"]_vars

C1_Witness ==
    /\ pc = "update"
    /\ idx = 2
    /\ outcome.call = "update"
    /\ outcome.region = REGION_EAST
    /\ outcome.raised = "StopIteration"
    /\ checkers[REGION_WEST].find_usage = 1

\* the log and the report are those of an update() whose try block went
\* past find_usage() and has ended
Translated ==
    pc # "translate" /\ outcome.call = "update" /\ outcome.translated

\* C3: the on-demand group of a service is processed only if the service is
\* EC2: update_ec2_on_demand sets no value for a limit of another service.
C3_OnDemandOnlyForEC2 ==
    Translated =>
        \A i \in 1..Len(log) :
            log[i].caller = "update_ec2_on_demand" => lower(log[i].service) = EC2_PREFIX

\* the set_limit_override calls a checker received, as a bag: each call with
\* the number of times it was made
CallsOf(r, call) ==
    Cardinality({i \in 1..Len(checkers[r].set_limit_override) :
                    checkers[r].set_limit_override[i] = call})

\* C6: every checker has received exactly the overrides that name its region,
\* each once; when the first find_usage() is called every configured region
\* has its checker, so that all overrides were applied before it; an override
\* naming a region that is not configured is applied nowhere.
C6_OverridesAppliedBeforePolling ==
    /\ \A r \in DOMAIN checkers :
          /\ Len(checkers[r].set_limit_override)
                = Cardinality({o \in overrides : o.region = r})
          /\ \A o \in overrides :
                CallsOf(r, <<o.service, o.limit_name, o.value>>)
                  = Cardinality({x \in overrides :
                                    /\ x.region = r
                                    /\ <<x.service, x.limit_name, x.value>>
                                         = <<o.service, o.limit_name, o.value>>})
    /\ (pc \in {"update", "translate", "sleep"}
         \/ \E r \in DOMAIN checkers : checkers[r].find_usage # 0)
        => DOMAIN checkers = {regions[i] : i \in 1..Len(regions)}

C6_Witness ==
    /\ pc = "translate"
    /\ DOMAIN checkers = {REGION_EAST, REGION_WEST}
    /\ checkers[REGION_EAST].find_usage = 1
    /\ checkers[REGION_WEST].find_usage = 0
    /\ checkers[REGION_EAST].set_limit_override
         = << <<EC2_PREFIX, <<"O", "n", "-", "D", "e", "m", "a", "n", "d", " ", "m", "5", ".", "l", "a", "r", "g", "e">>, 50>> >>
    /\ checkers[REGION_WEST].set_limit_override = << <<SVC_VPC, NAME_VPCS, 7>> >>
    /\ \E o \in overrides : o.region = REGION_EU


\* the writes update() made for the limit `name` of `service` from `caller`
WritesFor(service, name, caller) ==
    LET w == SelectSeq(log, LAMBDA e : /\ e.service = service
                                       /\ e.limit_name = name
                                       /\ e.caller = caller)
    IN  [i \in 1..Len(w) |-> [path |-> w[i].path, labels |-> w[i].labels,
                              value |-> w[i].value]]

\* the value of the last write to the series `path` at `labels`
LastWritten(path, labels) ==
    LET at == {j \in 1..Len(log) : log[j].path = path /\ log[j].labels = labels}
    IN  log[CHOOSE j \in at : \A k \in at : k <= j].value

\* every value written from `caller` is the last one written to its place
HoldsLastWrite(caller) ==
    \A i \in 1..Len(log) :
        log[i].caller = caller =>
            /\ log[i].path \in DOMAIN samples
            /\ log[i].labels \in DOMAIN samples[log[i].path]
            /\ samples[log[i].path][log[i].labels] = LastWritten(log[i].path, log[i].labels)

\* the instance type the specification gives a limit name: 'total' for the
\* aggregate, else the first word with a '.', <<>> when there is none
ExpectedInstanceType(name) ==
    LET words == split(name, " ")
        dotted == {k \in 1..Len(words) : CharIn(".", words[k])}
    IN  IF OnePass(EC2_PREFIX \o <<".">> \o name) = AGGREGATE_PATH THEN TOTAL
        ELSE IF dotted = {} THEN <<>>
        ELSE words[CHOOSE k \in dotted : \A j \in dotted : k <= j]

HasNoInstanceType(service, name) ==
    /\ service \in DOMAIN report
    /\ name \in DOMAIN report[service]
    /\ is_on_demand(name)
    /\ ExpectedInstanceType(name) = <<>>

\* an on-demand limit without instance type comes before the on-demand limit
\* `name` of `service` in the order of emission
FailsBeforeOnDemand(service, name) ==
    \E s \in DOMAIN report : \E n \in DOMAIN report[s] :
        /\ HasNoInstanceType(s, n)
        /\ StrLess(s, service) \/ (s = service /\ StrLess(n, name))

\* ... before the general limits of `service`
FailsBeforeGeneral(service) ==
    \E s \in DOMAIN report : \E n \in DOMAIN report[s] :
        /\ HasNoInstanceType(s, n)
        /\ StrLess(s, service) \/ s = service

ExpectedOnDemandWrites(region, limit, it) ==
    <<[path |-> AGGREGATE_PATH,
       labels |-> [region |-> region, type |-> TYPE_LIMIT, instance_type |-> it],
       value |-> limit.limit]>>
    \o [i \in 1..Len(limit.usage) |->
           [path |-> AGGREGATE_PATH,
            labels |-> [region |-> region, type |-> TYPE_CURRENT, instance_type |-> it],
            value |-> limit.usage[i].value]]

\* C9: for every limit of an on-demand group the instance_type is 'total'
\* when 'ec2' + name normalises to the aggregate path, else the first word of
\* the name with a '.'; with no such word an exception is raised and nothing
\* is set for the limit. The ceiling is set at (region, 'limit',
\* instance_type), then each usage value at (region, 'current',
\* instance_type), the series holding the last value written.
C9_InstanceTypeLabel ==
    Translated =>
        /\ \A s \in DOMAIN report :
              \A n \in {k \in DOMAIN report[s] : is_on_demand(k)} :
                  LET it == ExpectedInstanceType(n)
                      w == WritesFor(s, n, "update_ec2_on_demand")
                  IN  IF FailsBeforeOnDemand(s, n) THEN w = <<>>
                      ELSE IF it = <<>>
                           THEN w = <<>> /\ outcome.raised = "StopIteration"
                           ELSE w = ExpectedOnDemandWrites(outcome.region, report[s][n], it)
        /\ HoldsLastWrite("update_ec2_on_demand")

C9_Witness ==
    /\ Translated
    /\ report = ReportPlain
    /\ outcome.region = REGION_WEST
    /\ samples[AGGREGATE_PATH][[region |-> REGION_WEST, type |-> TYPE_LIMIT,
                                 instance_type |-> TOTAL]] = 20
    /\ samples[AGGREGATE_PATH][[region |-> REGION_WEST, type |-> TYPE_CURRENT,
                                 instance_type |-> <<"m", "5", ".", "l", "a", "r", "g", "e">>]] = 3

ExpectedGeneralWrites(region, service, name, limit) ==
    LET path == OnePass(service \o <<".">> \o name)
    IN  <<[path |-> path, labels |-> [region |-> region, type |-> TYPE_LIMIT],
           value |-> limit.limit]>>
        \o [i \in 1..Len(limit.usage) |->
               [path |-> path,
                labels |-> [region |-> region,
                            type |-> IF limit.usage[i].resource_id # <<>>
                                     THEN limit.usage[i].resource_id
                                     ELSE TYPE_CURRENT],
                value |-> limit.usage[i].value]]

\* C10: for every general-group limit update_service sets (region, 'limit')
\* to the ceiling and then, for every usage entry in order, (region, t) to
\* its value, t being the resource identifier of the entry if it has one and
\* 'current' otherwise; the series holds the last value written to a place.
C10_GeneralGroupWrites ==
    Translated =>
        /\ \A s \in DOMAIN report :
              \A n \in {k \in DOMAIN report[s] : ~is_on_demand(k)} :
                  WritesFor(s, n, "update_service")
                    = IF FailsBeforeGeneral(s) THEN <<>>
                      ELSE ExpectedGeneralWrites(outcome.region, s, n, report[s][n])
        /\ HoldsLastWrite("update_service")

C10_Witness ==
    /\ Translated
    /\ report = ReportRds
    /\ outcome.region = REGION_EAST
    /\ samples[<<"v", "p", "c", "_", "v", "p", "c", "s">>][[region |-> REGION_EAST, type |-> TYPE_LIMIT]] = 6
    /\ samples[<<"v", "p", "c", "_", "v", "p", "c", "s">>][[region |-> REGION_EAST, type |-> VPC_A]] = 4

----------------------------------------------------------------------------
(* SpecNormalize: the path normaliser applied to (service, limit name) *)

MaxNameLen == 3

NameAlphabet == {"a", "Z", "5", " ", "-", ".", "(", ")", "_"}

RECURSIVE StringsUpTo(_, _)
StringsUpTo(alphabet, n) ==
    IF n = 0 THEN {<<>>}
    ELSE LET shorter == StringsUpTo(alphabet, n - 1)
         IN  shorter \cup {Append(s, c) : s \in shorter, c \in alphabet}

NormalizeInputs ==
    {<<svc, name>> : svc \in {<<"e", "c", "2">>, <<"E", "C", "2">>},
                     name \in StringsUpTo(NameAlphabet, MaxNameLen)
                              \cup {<<"R", "u", "n", "n", "i", "n", "g", " ", "O", "n", "-", "D", "e", "m", "a", "n", "d", " ", "E", "C", "2", " ", "i", "n", "s", "t", "a", "n", "c", "e", "s">>,
                                    <<"R", "u", "n", "n", "i", "n", "g", " ", "O", "n", "-", "D", "e", "m", "a", "n", "d", " ", "m", "5", ".", "l", "a", "r", "g", "e", " ", "I", "n", "s", "t", "a", "n", "c", "e", "s">>,
                                    <<"P", "r", "o", "v", "i", "s", "i", "o", "n", "e", "d", " ", "I", "O", "P", "S", " ", "(", "S", "S", "D", ")", " ", "s", "t", "o", "r", "a", "g", "e", " ", "(", "G", "i", "B", ")">>}}

InitNormalize ==
    /\ InitProgram
    /\ config = <<>>
    /\ inp \in NormalizeInputs
    /\ out = <<>>

\* gauge(path) for path = '.'.join([service, limit_name]): its registry key
NormalizePath ==
    /\ out = <<>>
    /\ out' = <<normalize(limit_path(inp[1], inp[2]))>>
    /\ UNCHANGED <<pc, config, regions, overrides, order, checkers, idx, report,
                   gauges, samples, log, outcome, inp, timing>>

\* gauge(path) for a path that is already a registry key
NormalizeAgain ==
    /\ Len(out) = 1
    /\ out' = Append(out, normalize(out[1]))
    /\ UNCHANGED <<pc, config, regions, overrides, order, checkers, idx, report,
                   gauges, samples, log, outcome, inp, timing>>

NextNormalize ==
    \/ NormalizePath
    \/ NormalizeAgain

SpecNormalize == InitNormalize /\ [][NextNormalize]_vars

IsCanonicalChar(c) ==
    /\ c \notin {" ", "-", ".", "(", ")"}
    /\ ~(Ord(c) >= 65 /\ Ord(c) <= 90)

\* C7: the registry key of (service, limit name) is the one-pass translation
\* of service + '.' + limit name: lowercased, each of ' ', '-', '.' turned
\* into '_', each '(' and ')' deleted, every other character kept; it holds
\* no uppercase letter, ' ', '-', '.', '(' or ')'.
C7_PathIsOnePassTranslation ==
    Len(out) >= 1 =>
        /\ out[1] = OnePass(inp[1] \o <<".">> \o inp[2])
        /\ \A i \in 1..Len(out[1]) : IsCanonicalChar(out[1][i])

C7_Witness ==
    /\ Len(out) = 1
    /\ inp = <<<<"e", "c", "2">>, <<"P", "r", "o", "v", "i", "s", "i", "o", "n", "e", "d", " ", "I", "O", "P", "S", " ", "(", "S", "S", "D", ")", " ", "s", "t", "o", "r", "a", "g", "e", " ", "(", "G", "i", "B", ")">>>>
    /\ out[1] = <<"e", "c", "2", "_", "p", "r", "o", "v", "i", "s", "i", "o", "n", "e", "d", "_", "i", "o", "p", "s", "_", "s", "s", "d", "_", "s", "t", "o", "r", "a", "g", "e", "_", "g", "i", "b">>

\* C8: normalising an already normalised path returns it unchanged, so the
\* literal 'ec2_running_on_demand_ec2_instances' and a raw name that
\* normalises to it give gauge() the same registry key.
C8_NormalizeIdempotent ==
    Len(out) = 2 =>
        /\ out[2] = out[1]
        /\ normalize(AGGREGATE_PATH) = AGGREGATE_PATH

C8_Witness ==
    /\ Len(out) = 2
    /\ out[2] = AGGREGATE_PATH
    /\ limit_path(inp[1], inp[2]) # AGGREGATE_PATH

----------------------------------------------------------------------------
(* SpecGauge: any sequence of gauge(path, extra_labels) calls *)

MaxCalls == 3

GaugePaths ==
    {AGGREGATE_PATH,
     <<"e", "c", "2", ".", "R", "u", "n", "n", "i", "n", "g", " ", "O", "n", "-", "D", "e", "m", "a", "n", "d", " ", "E", "C", "2", " ", "i", "n", "s", "t", "a", "n", "c", "e", "s">>,
     <<"V", "P", "C", ".", "V", "P", "C", "s">>,
     <<"v", "p", "c", "_", "v", "p", "c", "s">>,
     <<"E", "B", "S", ".", "P", "r", "o", "v", "i", "s", "i", "o", "n", "e", "d", " ", "I", "O", "P", "S", " ", "(", "S", "S", "D", ")", " ", "s", "t", "o", "r", "a", "g", "e", " ", "(", "G", "i", "B", ")">>}

ExtraLabels == {<<>>, <<"instance_type">>}

InitGauge ==
    /\ InitProgram
    /\ config = <<>>
    /\ inp = <<>>
    /\ out = <<>>

\* one call g = gauge(path, extra_labels); log keeps the calls and what they returned
GaugeCall ==
    /\ Len(log) < MaxCalls
    /\ \E path \in GaugePaths, extra_labels \in ExtraLabels :
          LET r == gauge(path, extra_labels, gauges)
          IN  /\ gauges' = r.gauges
              /\ inp' = <<path, extra_labels>>
              /\ out' = r.g
              /\ log' = Append(log, [path |-> path, extra_labels |-> extra_labels,
                                     g |-> r.g])
    /\ UNCHANGED <<pc, config, regions, overrides, order, checkers, idx, report,
                   samples, outcome, timing>>

NextGauge ==
    GaugeCall

SpecGauge == InitGauge /\ [][NextGauge]_vars

FirstCallFor(p) ==
    CHOOSE i \in 1..Len(log) :
        /\ normalize(log[i].path) = p
        /\ \A j \in 1..(i - 1) : normalize(log[j].path) # p

\* C2: after any sequence of gauge() calls the registry holds exactly one
\* series per distinct normalised path; every call for a path returned the
\* series the registry holds now, which is the one the first call created,
\* with labels region, type and the first call's extra labels.
C2_OneSeriesPerPath ==
    /\ DOMAIN gauges = {normalize(log[i].path) : i \in 1..Len(log)}
    /\ \A i \in 1..Len(log) :
          LET p == normalize(log[i].path)
          IN  /\ log[i].g = gauges[p]
              /\ gauges[p].name = p
              /\ gauges[p].labelnames =
                     <<"region", "type">> \o log[FirstCallFor(p)].extra_labels
    /\ \A p, q \in DOMAIN gauges : p # q => gauges[p].serial # gauges[q].serial

C2_Witness ==
    /\ Len(log) = 2
    /\ log[1].path = AGGREGATE_PATH
    /\ log[1].extra_labels = <<"instance_type">>
    /\ log[2].path = <<"e", "c", "2", ".", "R", "u", "n", "n", "i", "n", "g", " ", "O", "n", "-", "D", "e", "m", "a", "n", "d", " ", "E", "C", "2", " ", "i", "n", "s", "t", "a", "n", "c", "e", "s">>
    /\ log[2].extra_labels = <<>>
    /\ log[2].g = log[1].g
    /\ Cardinality(DOMAIN gauges) = 1

----------------------------------------------------------------------------
(* SpecOverrides: _get_configs on an overrides text of up to MaxLines lines *)

MaxLines == 3

OverrideLines ==
    {<<"u", "s", "-", "e", "a", "s", "t", "-", "1", "/", "e", "c", "2", "/", "O", "n", "-", "D", "e", "m", "a", "n", "d", " ", "m", "5", ".", "l", "a", "r", "g", "e", "=", "5", "0">>,
     <<"u", "s", "-", "w", "e", "s", "t", "-", "2", "/", "V", "P", "C", "/", "V", "P", "C", "s", "=", "7">>,
     <<"u", "s", "-", "w", "e", "s", "t", "-", "2", "/", "V", "P", "C", "/", "V", "P", "C", "s", "=", "+", "7">>,
     <<"e", "u", "-", "w", "e", "s", "t", "-", "1", "/", "V", "P", "C", "/", "V", "P", "C", "s", "=", "7">>,
     <<"n", "o", "-", "e", "q", "u", "a", "l", "s", "-", "s", "i", "g", "n">>,
     <<>>,
     <<"b", "a", "d", "/", "f", "o", "r", "m", "a", "t", "=", "n", "o", "t", "a", "n", "u", "m", "b", "e", "r">>,
     <<"a", "/", "b", "/", "c", "/", "d", "=", "5">>,
     <<"a", "/", "b", "/", "c", "=", "5", "=", "6">>,
     <<"a", "/", "b", "/", "c", "=">>}

RECURSIVE SeqsUpTo(_, _)
SeqsUpTo(S, n) ==
    IF n = 0 THEN {<<>>}
    ELSE LET shorter == SeqsUpTo(S, n - 1)
         IN  shorter \cup {Append(q, x) : q \in shorter, x \in S}

OverrideTexts ==
    {join(ls, <<"\n">>) : ls \in SeqsUpTo(OverrideLines, MaxLines)}

InitOverrides ==
    /\ InitProgram
    /\ config \in [port : {DEFAULT_PORT}, interval : {DEFAULT_INTERVAL},
                    regions : {DEFAULT_REGIONS}, overrides : OverrideTexts]
    /\ inp = <<>>
    /\ out = <<>>

NextOverrides ==
    GetConfigs

SpecOverrides == InitOverrides /\ [][NextOverrides]_vars

ConfigLines == split(config.overrides, "\n")

\* the text before the first '=' and the text after it
BeforeEquals(line) ==
    SubSeq(line, 1, (CHOOSE i \in 1..Len(line) :
                        line[i] = "=" /\ \A j \in 1..(i - 1) : line[j] # "=") - 1)

AfterEquals(line) ==
    SubSeq(line, (CHOOSE i \in 1..Len(line) :
                     line[i] = "=" /\ \A j \in 1..(i - 1) : line[j] # "=") + 1, Len(line))

\* region/service/limit-name=value: exactly three parts, exactly one integer
IsWellFormedLine(line) ==
    /\ CharIn("=", line)
    /\ Len(split(BeforeEquals(line), "/")) = 3
    /\ int(AfterEquals(line)).raised = "none"

IsMalformedLine(line) ==
    CharIn("=", line) /\ ~IsWellFormedLine(line)

\* C4: a line without '=' gives no record and no error; a line with '=' that
\* is not exactly region/service/limit-name before '=' and one integer after
\* it makes the parser raise, so that no record is produced from it.
C4_MalformedLineRaises ==
    pc # "config" =>
        /\ (\E i \in 1..Len(ConfigLines) : IsMalformedLine(ConfigLines[i]))
              => pc = "crashed"
        /\ (\A i \in 1..Len(ConfigLines) : ~IsMalformedLine(ConfigLines[i]))
              => /\ pc = "checkers"
                 /\ \A o \in overrides : IsWellFormedLine(ConfigLines[o.id])

OverrideFields(o) ==
    <<o.region, o.service, o.limit_name, o.value>>

ExpectedFields(line) ==
    LET parts == split(BeforeEquals(line), "/")
    IN  <<parts[1], parts[2], parts[3], int(AfterEquals(line)).value>>

\* C5: the parse result is a set of records, one per well-formed line, in
\* which two lines that parse to the same (region, service, limit name,
\* value) are one record: the number of records is the number of distinct
\* tuples.
C5_DuplicatesCollapse ==
    (pc = "checkers" /\ \A i \in 1..Len(ConfigLines) : ~IsMalformedLine(ConfigLines[i])) =>
        /\ {OverrideFields(o) : o \in overrides}
              = {ExpectedFields(ConfigLines[i]) :
                    i \in {j \in 1..Len(ConfigLines) : IsWellFormedLine(ConfigLines[j])}}
        /\ Cardinality(overrides)
              = Cardinality({OverrideFields(o) : o \in overrides})

----------------------------------------------------------------------------
(* End to end: two regions and a backend returning, for each region, one
   on-demand limit of EC2 and one limit of another service *)

\* get_limits(): one on-demand limit of EC2 and one limit of VPC
StubReport(ceiling, used, vpc_ceiling, vpc_used) ==
    (SVC_EC2 :> (NAME_M5 :> Limit(ceiling, <<Usage(used, <<>>)>>)))
    @@ (SVC_VPC :> (NAME_VPCS :> Limit(vpc_ceiling, <<Usage(vpc_used, <<>>)>>)))

StubReports ==
    {StubReport(ceiling, 2, vpc_ceiling, vpc_used) :
        ceiling \in {10, 20}, vpc_ceiling \in {5, 6}, vpc_used \in {1, 3}}

\* the backend of each region is fixed when the program starts
InitEndToEnd ==
    /\ InitProgram
    /\ config = Config(DEFAULT_PORT, DEFAULT_INTERVAL, DEFAULT_REGIONS, <<>>)
    /\ inp \in [{REGION_EAST, REGION_WEST} -> StubReports]
    /\ out = <<>>

\* update(checker, region): checker.find_usage() returns; get_limits() will
\* return the region's report of the stub backend
FindUsageStub ==
    FindUsageReturns(inp[order[idx]])

NextEndToEnd ==
    \/ GetConfigs
    \/ MakeChecker
    \/ StartServer
    \/ FindUsageStub
    \/ Translate
    \/ Sleep

SpecEndToEnd == InitEndToEnd /\ [][NextEndToEnd]_vars

M5_LARGE == <<"m", "5", ".", "l", "a", "r", "g", "e">>
VPC_VPCS == <<"v", "p", "c", "_", "v", "p", "c", "s">>

\* the label tuples of the series `path` without their region label
LabelsWithoutRegion(path, r) ==
    {[l EXCEPT !.region = <<>>] : l \in {k \in DOMAIN samples[path] : k.region = r}}

\* C11: with two regions and a backend returning one EC2 on-demand limit and
\* one generic limit per region, after a complete cycle the registry holds
\* exactly two series, the aggregate ec2_running_on_demand_ec2_instances and
\* vpc_vpcs; both regions have the same label tuples up to the region label,
\* and each label tuple holds the ceiling or the usage the backend returned
\* for its region.
C11_EndToEnd ==
    pc = "sleep" =>
        /\ DOMAIN gauges = {AGGREGATE_PATH, VPC_VPCS}
        /\ DOMAIN samples = {AGGREGATE_PATH, VPC_VPCS}
        /\ gauges[AGGREGATE_PATH].labelnames = <<"region", "type", "instance_type">>
        /\ gauges[VPC_VPCS].labelnames = <<"region", "type">>
        /\ DOMAIN samples[AGGREGATE_PATH] =
               {[region |-> r, type |-> t, instance_type |-> M5_LARGE] :
                   r \in {REGION_EAST, REGION_WEST}, t \in {TYPE_LIMIT, TYPE_CURRENT}}
        /\ DOMAIN samples[VPC_VPCS] =
               {[region |-> r, type |-> t] :
                   r \in {REGION_EAST, REGION_WEST}, t \in {TYPE_LIMIT, TYPE_CURRENT}}
        /\ \A path \in {AGGREGATE_PATH, VPC_VPCS} :
               LabelsWithoutRegion(path, REGION_EAST) = LabelsWithoutRegion(path, REGION_WEST)
        /\ \A r \in {REGION_EAST, REGION_WEST} :
               LET ec2 == inp[r][SVC_EC2][NAME_M5]
                   vpc == inp[r][SVC_VPC][NAME_VPCS]
               IN  /\ samples[AGGREGATE_PATH][[region |-> r, type |-> TYPE_LIMIT,
                                                instance_type |-> M5_LARGE]] = ec2.limit
                   /\ samples[AGGREGATE_PATH][[region |-> r, type |-> TYPE_CURRENT,
                                                instance_type |-> M5_LARGE]]
                          = ec2.usage[1].value
                   /\ samples[VPC_VPCS][[region |-> r, type |-> TYPE_LIMIT]] = vpc.limit
                   /\ samples[VPC_VPCS][[region |-> r, type |-> TYPE_CURRENT]]
                          = vpc.usage[1].value

\* the first cycle is complete and the two regions reported different values
C11_Witness ==
    /\ pc = "sleep"
    /\ cycle = 1
    /\ DOMAIN inp = {REGION_EAST, REGION_WEST}
    /\ inp[REGION_EAST] = StubReport(10, 2, 5, 1)
    /\ inp[REGION_WEST] = StubReport(20, 2, 6, 3)
    /\ samples[VPC_VPCS][[region |-> REGION_EAST, type |-> TYPE_CURRENT]] = 1
    /\ samples[VPC_VPCS][[region |-> REGION_WEST, type |-> TYPE_CURRENT]] = 3

----------------------------------------------------------------------------
(* Spec: what a failed update() leaves behind *)

EBS_ACTIVE_SNAPSHOTS == <<"e", "b", "s", "_", "a", "c", "t", "i", "v", "e", "_", "s", "n", "a", "p", "s", "h", "o", "t", "s">>

\* the value of the last write of `writes` to the series `path` at `labels`
LastWrittenIn(writes, path, labels) ==
    LET at == {j \in 1..Len(writes) :
                  writes[j].path = path /\ writes[j].labels = labels}
    IN  writes[CHOOSE j \in at : \A k \in at : k <= j].value

\* a step in which the translation of a report ends on an exception
TranslationRaises ==
    pc = "translate" /\ outcome'.raised # "none"

\* C12: when the translation of a region's report raises part-way, no series
\* of the registry is removed, no label tuple disappears, and every place
\* written earlier in that update() call holds, after update() returned, the
\* last value the call wrote to it.
C12_NoRollback ==
    [][TranslationRaises =>
          /\ DOMAIN gauges \subseteq DOMAIN gauges'
          /\ \A p \in DOMAIN gauges : gauges'[p] = gauges[p]
          /\ \A p \in DOMAIN samples :
                /\ p \in DOMAIN samples'
                /\ DOMAIN samples[p] \subseteq DOMAIN samples'[p]
          /\ \A i \in 1..Len(log') :
                /\ log'[i].path \in DOMAIN gauges'
                /\ log'[i].path \in DOMAIN samples'
                /\ log'[i].labels \in DOMAIN samples'[log'[i].path]
                /\ samples'[log'[i].path][log'[i].labels]
                      = LastWrittenIn(log', log'[i].path, log'[i].labels)]_vars

\* in the second pass the translation for us-east-1 raised after the limits of
\* EBS and the EC2 total were set; the VPC value is the one of the first pass
C12_Witness ==
    /\ Translated
    /\ cycle = 2
    /\ outcome.region = REGION_EAST
    /\ outcome.raised = "StopIteration"
    /\ report = ReportNoType
    /\ samples[EBS_ACTIVE_SNAPSHOTS][[region |-> REGION_EAST, type |-> TYPE_LIMIT]] = 9
    /\ samples[AGGREGATE_PATH][[region |-> REGION_EAST, type |-> TYPE_LIMIT,
                                 instance_type |-> TOTAL]] = 22
    /\ VPC_VPCS \in DOMAIN samples
    /\ [region |-> REGION_EAST, type |-> TYPE_LIMIT] \in DOMAIN samples[VPC_VPCS]
    /\ samples[VPC_VPCS][[region |-> REGION_EAST, type |-> TYPE_LIMIT]] = 5

\* a step in which update() ends because find_usage() raised
RefreshFails ==
    pc = "update" /\ pc' # "translate"

\* C13: when find_usage() of region r raises, the report is not read and
\* nothing is translated for r in that cycle: no value is written, and the
\* registry and every value of every series are what they were before the
\* call.
C13_FailedRefreshChangesNothing ==
    [][RefreshFails =>
          /\ gauges' = gauges
          /\ samples' = samples
          /\ report' = report
          /\ log' = <<>>
          /\ outcome'.region = order[idx]
          /\ outcome'.raised = "Exception"
          /\ ~outcome'.translated]_vars

\* find_usage() of us-east-1 raised in the second pass; the values the first
\* pass set for us-east-1 are still there
C13_Witness ==
    /\ pc = "update"
    /\ cycle = 2
    /\ idx = 2
    /\ outcome.region = REGION_EAST
    /\ outcome.raised = "Exception"
    /\ ~outcome.translated
    /\ AGGREGATE_PATH \in DOMAIN samples
    /\ [region |-> REGION_EAST, type |-> TYPE_LIMIT, instance_type |-> TOTAL]
          \in DOMAIN samples[AGGREGATE_PATH]
    /\ samples[AGGREGATE_PATH][[region |-> REGION_EAST, type |-> TYPE_LIMIT,
                                 instance_type |-> TOTAL]] = 20

----------------------------------------------------------------------------
(* Spec: the order of the polling loop *)

\* the configured regions in configuration order, each once
RECURSIVE FirstOccurrences(_)
FirstOccurrences(s) ==
    IF s = <<>> THEN <<>>
    ELSE LET front == FirstOccurrences(SubSeq(s, 1, Len(s) - 1))
             last == s[Len(s)]
         IN  IF \E i \in 1..Len(front) : front[i] = last THEN front
             ELSE Append(front, last)

\* a step in which update() returns to the loop
UpdateReturns ==
    pc \in {"update", "translate"} /\ pc' # "translate"

\* C14: the loop is at one region at a time, which is being refreshed
\* (update) or translated (translate); the regions of a pass are the
\* configured ones in configuration order, each once: a pass starts at the
\* first, translation of a region starts only from its refresh, the update
\* that returns is the one of the region the loop is at, after it the loop is
\* at the next region, and the sleep starts only when the update of the last
\* region has returned; after the sleep the next pass starts at the first
\* region.
C14_CycleOrder ==
    /\ [](pc \in {"update", "translate", "sleep"} =>
             /\ order = FirstOccurrences(regions)
             /\ DOMAIN checkers = {order[i] : i \in 1..Len(order)}
             /\ idx \in 1..Len(order)
             /\ cycle >= 1)
    /\ [][pc' = "update" /\ pc = "checkers" => idx' = 1 /\ cycle' = 1]_vars
    /\ [][pc' = "translate" =>
             /\ pc = "update"
             /\ idx' = idx
             /\ cycle' = cycle
             /\ checkers'[order[idx]].find_usage = 1]_vars
    /\ [][UpdateReturns =>
             /\ outcome'.call = "update"
             /\ outcome'.region = order[idx]
             /\ cycle' = cycle
             /\ IF idx < Len(order)
                THEN pc' = "update" /\ idx' = idx + 1
                ELSE pc' = "sleep" /\ idx' = idx]_vars
    /\ [][pc' = "sleep" => UpdateReturns /\ idx = Len(order)]_vars
    /\ [][pc = "sleep" =>
             \/ pc' = "update" /\ idx' = 1 /\ cycle' = cycle + 1
             \/ pc' = "crashed" /\ cycle' = cycle]_vars

\* the second pass is over: the last update was the one of us-west-2, the
\* second of the two configured regions
C14_Witness ==
    /\ pc = "sleep"
    /\ cycle = 2
    /\ order = <<REGION_EAST, REGION_WEST>>
    /\ idx = 2
    /\ outcome.call = "update"
    /\ outcome.region = REGION_WEST

----------------------------------------------------------------------------
(* Spec: the observations of REQUEST_TIME *)

\* C16: every call of update(checker, region) records exactly one
\* observation when it returns, whether its body completed or an exception
\* was caught in it, and nothing else records one: when k passes over n
\* regions are complete, k * n observations have been recorded.
C16_OneObservationPerUpdate ==
    /\ [][IF UpdateReturns THEN observations' = observations + 1
                           ELSE observations' = observations]_vars
    /\ [](pc = "sleep" => observations = cycle * Len(order))
    /\ [](pc \in {"update", "translate"} =>
             observations = (cycle - 1) * Len(order) + (idx - 1))

\* two passes over two regions are complete, the last update caught an
\* exception, and four observations have been recorded
C16_Witness ==
    /\ pc = "sleep"
    /\ cycle = 2
    /\ Len(order) = 2
    /\ outcome.raised = "Exception"
    /\ observations = 4

----------------------------------------------------------------------------
(* Spec: the wait between two passes *)

\* the pass that is over took longer than the configured interval
Overrun ==
    pc = "sleep" /\ elapsed > main_interval

\* C17 as stated: when a pass over all regions took longer than the
\* configured interval, the next pass starts right when the pass is over, with
\* no wait in between.
C17_NoWaitAfterOverrun ==
    [][Overrun /\ pc' = "update" =>
          /\ waited' = 0
          /\ cycle' = cycle + 1
          /\ idx' = 1]_vars

\* C17 amended: when a pass is over the loop calls time.sleep(interval),
\* whether or not the pass took longer than the interval. The next pass starts
\* when that sleep returns, one configured interval after the pass was over;
\* it starts only from the sleep that follows the update of the last region
\* (no overlap), is the pass right after the one that is over and starts at
\* the first region (no pass is skipped). With a negative interval the sleep
\* raises ValueError, which ends main(): no pass follows.
C17_SleepsIntervalAfterEveryPass ==
    /\ [][pc = "sleep" =>
             IF main_interval >= 0
             THEN /\ pc' = "update"
                  /\ waited' = main_interval
                  /\ cycle' = cycle + 1
                  /\ idx' = 1
             ELSE /\ pc' = "crashed"
                  /\ outcome'.raised = "ValueError"
                  /\ cycle' = cycle]_vars
    /\ [][cycle' # cycle /\ cycle >= 1 => pc = "sleep" /\ idx = Len(order)]_vars

\* the first pass took 2400 seconds, more than the interval of 1800, and the
\* second pass started after a sleep of 1800 seconds
C17_Witness ==
    /\ pc = "update"
    /\ cycle = 2
    /\ idx = 1
    /\ main_interval = 1800
    /\ elapsed = 2400
    /\ waited = 1800

----------------------------------------------------------------------------
(* SpecPoll: the polling loop without its clock, every call returning *)

InitPoll ==
    /\ InitProgram
    /\ config \in {Config(DEFAULT_PORT, DEFAULT_INTERVAL, DEFAULT_REGIONS, <<>>),
                   Config(DEFAULT_PORT, <<"-", "1">>, DEFAULT_REGIONS, <<>>)}
    /\ inp = <<>>
    /\ out = <<>>

PollFindUsageRaises ==
    FindUsageRaisesUntimed /\ UNCHANGED timing

PollTranslate ==
    TranslateUntimed /\ UNCHANGED timing

PollSleep ==
    SleepUntimed /\ UNCHANGED timing

NextPoll ==
    \/ GetConfigs
    \/ MakeChecker
    \/ StartServer
    \/ PollFindUsageRaises
    \/ FindUsage
    \/ PollTranslate
    \/ PollSleep

\* main() before the loop
StartUp ==
    GetConfigs \/ MakeChecker \/ StartServer

\* the call the loop is in (find_usage(), the rest of update(), time.sleep())
\* returns or raises: the position of the loop changes
CallReturns ==
    /\ pc \in {"update", "translate", "sleep"}
    /\ pc' \in {"update", "translate", "sleep", "crashed"}
    /\ idx' \in 1..Len(order)

\* the one thread of main() runs, and every call of the loop returns
SpecPoll ==
    /\ InitPoll
    /\ [][NextPoll]_vars
    /\ WF_vars(StartUp)
    /\ WF_<<pc, idx>>(CallReturns)

\* a step in which find_usage() of the checker of region r is called
Refreshes(r) ==
    /\ pc = "update"
    /\ order[idx] = r
    /\ pc' # "update" \/ idx' # idx

\* time.sleep(interval) returns whenever it is called
SleepReturns ==
    main_interval >= 0

\* C15: provided every call returns (find_usage() and the translation return
\* or raise inside update(), time.sleep returns), the polling loop never
\* leaves its positions update, translate and sleep, and find_usage() is
\* called again and again for each of the two configured regions, whatever
\* updates raise.
C15_NeverTerminates ==
    /\ [](SleepReturns => pc # "crashed")
    /\ [][(SleepReturns /\ pc \in {"update", "translate", "sleep"})
             => (pc' \in {"update", "translate", "sleep"})]_vars
    /\ \A r \in {REGION_EAST, REGION_WEST} :
          SleepReturns => []<><<Refreshes(r)>>_vars

\* the update of the last region caught an exception and the loop is at the
\* first region again
C15_Witness ==
    /\ pc = "update"
    /\ idx = 1
    /\ outcome.call = "update"
    /\ outcome.region = REGION_WEST
    /\ outcome.raised = "StopIteration"

----------------------------------------------------------------------------
(* Spec: the region an update() writes *)

\* the places (series, label tuple) holding a value, with their values
Cells(values) ==
    {<<p, l, values[p][l]>> : <<p, l>> \in
        UNION {{<<q, k>> : k \in DOMAIN values[q]} : q \in DOMAIN values}}

\* C18: a step of update(checker, r) writes only label tuples whose region is
\* r: every value stored under another region stays where it is and what it
\* was, every value that is new or changed is stored under region r, and so is
\* every write of the call, whether the call ends normally or on an
\* exception.
C18_RegionScoped ==
    [][(pc \in {"update", "translate"}) =>
          /\ \A c \in Cells(samples) : c[2].region # order[idx] => c \in Cells(samples')
          /\ \A c \in Cells(samples') : c \notin Cells(samples) => c[2].region = order[idx]
          /\ \A i \in 1..Len(log') : order[idx] = log'[i].labels.region]_vars

\* the update of us-west-2 has set vpc_vpcs to 6 for us-west-2 after the one of
\* us-east-1 had set it to 5 for us-east-1
C18_Witness ==
    /\ Translated
    /\ outcome.region = REGION_WEST
    /\ Len(log) > 0
    /\ VPC_VPCS \in DOMAIN samples
    /\ {[region |-> REGION_EAST, type |-> TYPE_LIMIT],
        [region |-> REGION_WEST, type |-> TYPE_LIMIT]} \subseteq DOMAIN samples[VPC_VPCS]
    /\ samples[VPC_VPCS][[region |-> REGION_EAST, type |-> TYPE_LIMIT]] = 5
    /\ samples[VPC_VPCS][[region |-> REGION_WEST, type |-> TYPE_LIMIT]] = 6

----------------------------------------------------------------------------
(* Spec: the order of emission and where a failed translation stops *)

\* the limits of the report, each with its service
LimitsOf(limits) ==
    UNION {{<<s, n>> : n \in DOMAIN limits[s]} : s \in DOMAIN limits}

\* the group of a limit name: 0 for on-demand, 1 for general
GroupOf(name) ==
    IF is_on_demand(name) THEN 0 ELSE 1

\* limit a is emitted before limit b: by service name, then the on-demand
\* group before the general one, then by limit name
EmittedBefore(a, b) ==
    \/ StrLess(a[1], b[1])
    \/ /\ a[1] = b[1]
       /\ \/ GroupOf(a[2]) < GroupOf(b[2])
          \/ GroupOf(a[2]) = GroupOf(b[2]) /\ StrLess(a[2], b[2])

\* the limit a write of the log was made for
LimitOfWrite(e) ==
    <<e.service, e.limit_name>>

\* the limits of the report at which the translation raises
FailingLimits ==
    {a \in LimitsOf(report) : HasNoInstanceType(a[1], a[2])}

\* C19: the writes of an update() call come in the order of emission
\* (services by name, within a service the on-demand group before the general
\* group, each group by limit name), the on-demand writes from
\* update_ec2_on_demand and the general ones from update_service; when the
\* translation raises at limit L, the limits written are exactly those emitted
\* before L, and without an error all limits of the report are written.
C19_CutOffInEmissionOrder ==
    Translated =>
        /\ \A i, j \in 1..Len(log) :
              i < j => \/ LimitOfWrite(log[i]) = LimitOfWrite(log[j])
                       \/ EmittedBefore(LimitOfWrite(log[i]), LimitOfWrite(log[j]))
        /\ \A i \in 1..Len(log) :
              log[i].caller = IF GroupOf(log[i].limit_name) = 0
                              THEN "update_ec2_on_demand" ELSE "update_service"
        /\ IF FailingLimits = {}
           THEN /\ outcome.raised = "none"
                /\ {LimitOfWrite(log[i]) : i \in 1..Len(log)} = LimitsOf(report)
           ELSE LET L == CHOOSE a \in FailingLimits :
                            \A b \in FailingLimits \ {a} : EmittedBefore(a, b)
                IN  /\ outcome.raised = "StopIteration"
                    /\ {LimitOfWrite(log[i]) : i \in 1..Len(log)}
                          = {a \in LimitsOf(report) : EmittedBefore(a, L)}

\* the translation raised at the High Memory limit of EC2: the EBS limit and
\* the EC2 total are written, the general limit of EC2 and the one of VPC are
\* not
C19_Witness ==
    /\ Translated
    /\ report = ReportNoType
    /\ outcome.raised = "StopIteration"
    /\ {LimitOfWrite(log[i]) : i \in 1..Len(log)}
          = {<<SVC_EBS, NAME_SNAPSHOTS>>, <<SVC_EC2, NAME_TOTAL>>}

=============================================================================
